---- MODULE Spec2Model ----
(***************************************************************************)
(* Model of teensy3/serial1.c: the interrupt-driven UART0 driver.          *)
(*                                                                         *)
(* The driver is two single-producer/single-consumer rings (tx_buffer,     *)
(* rx_buffer, each optionally extended by caller memory) between the       *)
(* application API and uart0_status_isr.  The model has three kinds of     *)
(* step: the application's calls, cut at every access to a shared          *)
(* variable; the interrupt handler, cut where it publishes tx_buffer_tail  *)
(* and where it reuses its copy of UART0_C2; and the UART hardware, which  *)
(* moves units on and off the wire.                                        *)
(* The transmit-enable pin and the half-duplex direction bit are part of   *)
(* the state; serial_end closes the life cycle that serial_begin opens.    *)
(* serial_clear and the extension calls are cut at their assignments as    *)
(* well, and one specification cuts the handler where it assigns           *)
(* rx_buffer_head.                                                         *)
(*                                                                         *)
(* Scaling.  The buffer sizes of the source (64) and the hardware FIFO     *)
(* depth (8) are scaled down so that the state space is finite and small;  *)
(* the watermark margins (24, 38) are scaled with them, keeping            *)
(* 0 < low < high < size-1 as in the source.  The ring indices of the      *)
(* source are uint8_t (the sizes are below 256) and its locals uint32_t;   *)
(* the range of the stored indices is scaled to IndexWrap, above both      *)
(* base sizes as 256 is above 64, and an extension can take the total      *)
(* size past it as one of 193 cells or more does in the source.            *)
(***************************************************************************)
EXTENDS Integers, Sequences, FiniteSets, TLC

\* ---------------------------------------------------------------------
\* Tunable parameters of the source (scaled)
\* ---------------------------------------------------------------------
SERIAL1_TX_BUFFER_SIZE == 3
SERIAL1_RX_BUFFER_SIZE == 5
RTS_HIGH_WATERMARK == SERIAL1_RX_BUFFER_SIZE - 2
RTS_LOW_WATERMARK == SERIAL1_RX_BUFFER_SIZE - 4
IRQ_PRIORITY == 64
\* The values a ring index holds: static volatile uint8_t, scaled from 256.
IndexWrap == 8

\* The hardware of the FIFO build (UART0_PFIFO, UART0_TWFIFO, UART0_RWFIFO),
\* scaled from 8 / 2 / 4.
FIFO_SIZE == 2
TWFIFO == 1
RWFIFO == 2

\* ---------------------------------------------------------------------
\* Bounds of the model
\* ---------------------------------------------------------------------
MaxRx == 9       \* units the wire delivers
MaxTx == 5       \* units the application submits
MaxExt == 1      \* longest extension buffer handed to serial_add_memory_*
MaxCount == 3    \* longest serial_write
\* The units the whole-driver specification receives and submits, and the
\* reads and data-register writes it follows.
MaxRxWhole == 1
MaxTxWhole == 3

\* nvic_execution_priority() of the calling context: a handler that
\* outranks the UART interrupt, one of the same rank (or code running with
\* interrupts masked), and thread mode.
PRIO_ABOVE == IRQ_PRIORITY - 32
PRIO_THREAD == 4 * IRQ_PRIORITY

VARIABLES
  fifo,                   \* the build: HAS_KINETISK_UART0_FIFO
  clock,                  \* SIM_SCGC4 & SIM_SCGC4_UART0
  nvic,                   \* IRQ_UART0_STATUS enabled in the NVIC
  C2,                     \* UART0_C2, the set of its bits that are 1
  hwrx,                   \* receive FIFO / data register: units not yet read
  S1_IDLE,                \* UART_S1_IDLE
  hwtx,                   \* units in the transmit FIFO / buffer and shifter
  rx_buffer, rx_ext, rx_buffer_storage_, rx_buffer_total_size_,
  rts_low_watermark_, rts_high_watermark_,
  rx_buffer_head, rx_buffer_tail,
  rts_pin, RTS,
  tx_buffer, tx_ext, tx_buffer_storage_, tx_buffer_total_size_,
  tx_buffer_head, tx_buffer_tail,
  transmitting,
  transmit_pin,           \* transmit_pin != NULL (serial_set_transmit_pin)
  TXPIN,                  \* the level of the transmit pin
  half_duplex_mode,       \* half_duplex_mode (serial_format, KINETISL)
  TXDIR,                  \* UART0_C3 & UART_C3_TXDIR
  pc, prio, head, tail, c, count, ret,   \* the application's call in progress
  isr_pc, isr_c, isr_head, isr_tail,     \* uart0_status_isr in progress
  isr_sent, isr_got,      \* units it has popped / stored and not yet published
  fault,                  \* an access outside the ring's storage happened
  rxCount,                \* units the hardware has accepted from the wire
  rxlog,                  \* units uart0_status_isr stored into the RX ring
  getlog,                 \* values serial_getchar returned (not -1)
  rxMark,                 \* last unit in the RX ring when serial_clear was called
  txAsked,                \* units passed to serial_putchar / serial_write
  putlog,                 \* units stored into the TX ring
  dlog,                   \* values written to UART0_D
  txPopped,               \* units taken out of the TX ring (tail advances)
  txStale                 \* tx_buffer_tail was advanced under the handler's copy

hwVars == <<hwrx, S1_IDLE, hwtx, rxCount>>
regVars == <<fifo, clock, nvic, C2>>
rxCfg == <<rx_buffer_storage_, rx_buffer_total_size_, rts_low_watermark_,
           rts_high_watermark_, rts_pin>>
rxVars == <<rx_buffer, rx_ext, rx_buffer_head, rx_buffer_tail, RTS, rxlog, getlog,
           rxMark>>
txCfg == <<tx_buffer_storage_, tx_buffer_total_size_>>
txVars == <<tx_buffer, tx_ext, tx_buffer_head, tx_buffer_tail, transmitting,
           txAsked, putlog, dlog, txPopped, txStale>>
pinVars == <<transmit_pin, TXPIN, half_duplex_mode, TXDIR>>
callVars == <<pc, prio, head, tail, c, count, ret>>
isrVars == <<isr_pc, isr_c, isr_head, isr_tail, isr_sent, isr_got>>
vars == <<hwVars, regVars, rxCfg, rxVars, txCfg, pinVars, txVars, callVars, isrVars, fault>>

\* ---------------------------------------------------------------------
\* Registers
\* ---------------------------------------------------------------------
C2_ENABLE == IF fifo THEN {"TE", "RE", "RIE", "ILIE"} ELSE {"TE", "RE", "RIE"}
C2_TX_ACTIVE == C2_ENABLE \cup {"TIE"}
C2_TX_COMPLETING == C2_ENABLE \cup {"TCIE"}
C2_TX_INACTIVE == C2_ENABLE

\* UART0_RCFIFO, UART0_TCFIFO: units waiting in the hardware FIFOs.  The
\* transmitter moves a unit into its shifter as soon as the shifter is free.
RCFIFO == Len(hwrx)
TcFifoOf(hw) == IF hw > 0 THEN hw - 1 ELSE 0
TCFIFO == TcFifoOf(hwtx)

\* (mutant) transmit-complete is always reported.
S1_TC_Always == TRUE

\* UART0_S1 flags
S1_RDRF == IF fifo THEN RCFIFO >= RWFIFO ELSE RCFIFO >= 1
S1_TDRE == IF fifo THEN TCFIFO <= TWFIFO ELSE TCFIFO = 0
S1_TC == hwtx = 0

\* The status interrupt is requested while an enabled condition is set.
IrqPending ==
  /\ nvic
  /\ \/ "RIE" \in C2 /\ S1_RDRF
     \/ "ILIE" \in C2 /\ S1_IDLE
     \/ "TIE" \in C2 /\ S1_TDRE
     \/ "TCIE" \in C2 /\ S1_TC

\* ---------------------------------------------------------------------
\* Ring arithmetic
\* ---------------------------------------------------------------------
\* if (++i >= total) i = 0;
NextIndex(i, total) == IF i + 1 >= total THEN 0 ELSE i + 1

\* rx_buffer_head = head; and the like: a uint32_t local assigned to a
\* uint8_t index.
Stored(i) == i % IndexWrap

\* if (head >= tail) avail = head - tail; else avail = total + head - tail;
Avail(h, t, total) == IF h >= t THEN h - t ELSE total + h - t

\* The cell index i addresses: base storage below the base size, else the
\* extension at i - base size.
InStorage(i, base, ptr, ext) == i < base \/ (ptr # "NULL" /\ i - base < Len(ext))
ReadCell(i, base, buf, ext) ==
  IF i < base THEN buf[i]
  ELSE IF i - base < Len(ext) THEN ext[i - base + 1] ELSE 0
WriteBase(i, base, buf, v) == IF i < base THEN [buf EXCEPT ![i] = v] ELSE buf
WriteExt(i, base, ext, v) ==
  IF i >= base /\ i - base < Len(ext) THEN [ext EXCEPT ![i - base + 1] = v] ELSE ext

\* ---------------------------------------------------------------------
\* The hardware
\* ---------------------------------------------------------------------
Units == 0..(MaxRx + MaxTx)

\* A unit arrives from the wire.  The hardware keeps it while the receive
\* FIFO (one data register without the FIFO) has room; a unit that finds it
\* full never reaches the driver.  Units are numbered as they are accepted.
HwCapacity == IF fifo THEN FIFO_SIZE ELSE 1
HwReceive ==
  /\ clock /\ "RE" \in C2
  /\ rxCount < MaxRx
  /\ RCFIFO < HwCapacity
  /\ hwrx' = Append(hwrx, rxCount + 1)
  /\ rxCount' = rxCount + 1
  /\ UNCHANGED <<S1_IDLE, hwtx, regVars, rxCfg, rxVars, txCfg, pinVars, txVars, callVars,
                 isrVars, fault>>

\* The receive line falls idle (the FIFO build enables this interrupt).
HwIdle ==
  /\ clock /\ "RE" \in C2 /\ fifo
  /\ ~S1_IDLE
  /\ S1_IDLE' = TRUE
  /\ UNCHANGED <<hwrx, hwtx, rxCount, regVars, rxCfg, rxVars, txCfg, pinVars, txVars,
                 callVars, isrVars, fault>>

\* The shifter finishes a unit; the next one in the FIFO follows it.
HwTransmit ==
  /\ clock /\ "TE" \in C2
  /\ hwtx > 0
  /\ hwtx' = hwtx - 1
  /\ UNCHANGED <<hwrx, S1_IDLE, rxCount, regVars, rxCfg, rxVars, txCfg, pinVars, txVars,
                 callVars, isrVars, fault>>

\* ---------------------------------------------------------------------
\* uart0_status_isr
\* ---------------------------------------------------------------------
\* (mutant) the unit is stored without the test for a full ring.
RxPush_Overwrite(st, n, t, total) ==
  LET newhead == NextIndex(st.head, total) IN
  [head |-> newhead,
   buf |-> WriteBase(newhead, SERIAL1_RX_BUFFER_SIZE, st.buf, n),
   ext |-> WriteExt(newhead, SERIAL1_RX_BUFFER_SIZE, st.ext, n),
   log |-> Append(st.log, n),
   bad |-> st.bad]

\* One unit n read from UART0_D: stored at the next head unless that is the
\* tail (ring full), in which case it is discarded.  st carries the
\* handler's head, the storage and the log of stored units.
RxPush(st, n, t, total) ==
  LET newhead == NextIndex(st.head, total) IN
  IF newhead # t
  THEN [head |-> newhead,
        buf |-> WriteBase(newhead, SERIAL1_RX_BUFFER_SIZE, st.buf, n),
        ext |-> WriteExt(newhead, SERIAL1_RX_BUFFER_SIZE, st.ext, n),
        log |-> Append(st.log, n),
        bad |-> st.bad \/ ~InStorage(newhead, SERIAL1_RX_BUFFER_SIZE,
                                     rx_buffer_storage_, st.ext)]
  ELSE st

\* do { ... } while (--avail > 0): every unit of the hardware FIFO.
RECURSIVE RxDrain(_, _, _, _)
RxDrain(st, units, t, total) ==
  IF units = <<>> THEN st
  ELSE RxDrain(RxPush(st, Head(units), t, total), Tail(units), t, total)

\* if (avail >= rts_high_watermark_) rts_deassert();
RtsAfterDrain(h, t) ==
  IF rts_pin /\ Avail(h, t, rx_buffer_total_size_) >= rts_high_watermark_
  THEN "deasserted" ELSE RTS

RxState == [head |-> rx_buffer_head, buf |-> rx_buffer, ext |-> rx_ext,
            log |-> rxlog, bad |-> fault]

\* The receive part of the handler, FIFO build.
IsrReceiveFifo ==
  IF S1_RDRF \/ S1_IDLE
  THEN IF RCFIFO = 0
       THEN [st |-> RxState, rts |-> RTS, hw |-> <<>>, idle |-> FALSE]
       ELSE LET st == RxDrain(RxState, hwrx, rx_buffer_tail, rx_buffer_total_size_)
            IN [st |-> st, rts |-> RtsAfterDrain(st.head, rx_buffer_tail),
                hw |-> <<>>, idle |-> FALSE]
  ELSE [st |-> RxState, rts |-> RTS, hw |-> hwrx, idle |-> S1_IDLE]

\* The receive part of the handler, build without the FIFO.
IsrReceiveSingle ==
  IF S1_RDRF
  THEN [st |-> RxPush(RxState, Head(hwrx), rx_buffer_tail, rx_buffer_total_size_),
        rts |-> RTS, hw |-> Tail(hwrx), idle |-> S1_IDLE]
  ELSE [st |-> RxState, rts |-> RTS, hw |-> hwrx, idle |-> S1_IDLE]

IsrReceive == IF fifo THEN IsrReceiveFifo ELSE IsrReceiveSingle

\* One unit popped from the TX ring at the tail t into UART0_D.
TxPop(t, hw, log, bad) ==
  LET t2 == NextIndex(t, tx_buffer_total_size_) IN
  [tail |-> t2, hw |-> hw + 1,
   log |-> Append(log, ReadCell(t2, SERIAL1_TX_BUFFER_SIZE, tx_buffer, tx_ext)),
   bad |-> bad \/ ~InStorage(t2, SERIAL1_TX_BUFFER_SIZE, tx_buffer_storage_, tx_ext)]

\* do { if (tail == head) break; ...; UART0_D = n; } while (UART0_TCFIFO < 8);
RECURSIVE TxBurst(_)
TxBurst(st) ==
  IF st.tail = tx_buffer_head THEN st
  ELSE LET st2 == TxPop(st.tail, st.hw, st.log, st.bad) IN
       IF TcFifoOf(st2.hw) < FIFO_SIZE THEN TxBurst(st2) ELSE st2

TxState == [tail |-> tx_buffer_tail, hw |-> hwtx, log |-> dlog, bad |-> fault]

\* The handler may run while no call is in progress or the call in progress
\* runs at a priority the UART interrupt outranks.
Preemptable == pc = "idle" \/ prio > IRQ_PRIORITY

\* c = UART0_C2 and the transmit-ready part up to its last write of UART0_D.
\* rxbad: the receive part of the invocation made an access outside the
\* storage.
IsrTransmit(rxbad) ==
  LET txready == "TIE" \in C2 /\ S1_TDRE
      tx == IF ~txready THEN TxState
            ELSE IF fifo THEN TxBurst(TxState)
            ELSE IF tx_buffer_head = tx_buffer_tail THEN TxState
            ELSE TxPop(tx_buffer_tail, hwtx, dlog, fault)
  IN /\ isr_c' = C2
     /\ hwtx' = tx.hw
     /\ dlog' = tx.log
     /\ isr_tail' = tx.tail
     /\ isr_sent' = Len(tx.log) - Len(dlog)
     /\ fault' = (rxbad \/ tx.bad)
     /\ C2' = IF txready /\ ~fifo /\ tx_buffer_head = tx_buffer_tail
              THEN C2_TX_COMPLETING ELSE C2
     /\ isr_pc' = IF txready /\ (fifo \/ tx_buffer_head # tx_buffer_tail)
                  THEN "pub" ELSE "tc"

\* Handler entry: the receive part, c = UART0_C2, and the transmit-ready
\* part up to its last write of UART0_D.
uart0_status_isr ==
  /\ isr_pc = "idle" /\ IrqPending /\ Preemptable
  /\ LET rx == IsrReceive
     IN /\ rx_buffer_head' = Stored(rx.st.head)
        /\ rx_buffer' = rx.st.buf
        /\ rx_ext' = rx.st.ext
        /\ rxlog' = rx.st.log
        /\ RTS' = rx.rts
        /\ hwrx' = rx.hw
        /\ S1_IDLE' = rx.idle
        /\ IsrTransmit(rx.st.bad)
  /\ UNCHANGED <<rxCount, fifo, clock, nvic, rxCfg, rx_buffer_tail, getlog, rxMark, txCfg,
                 pinVars, tx_buffer, tx_ext, tx_buffer_head, tx_buffer_tail,
                 transmitting, txAsked, putlog, txPopped, txStale, callVars,
                 isr_head, isr_got>>

\* The invocation assigns rx_buffer_head: in the FIFO build whenever the
\* receive FIFO holds a unit (line 659), else when the ring has room for the
\* unit (line 703).
RxPublishes ==
  IF fifo THEN (S1_RDRF \/ S1_IDLE) /\ RCFIFO > 0
  ELSE S1_RDRF /\ NextIndex(rx_buffer_head, rx_buffer_total_size_) # rx_buffer_tail

\* The handler entry cut before that assignment: the units are read from
\* UART0_D and stored, the new head is in the local.
uart0_status_isr_store ==
  /\ isr_pc = "idle" /\ IrqPending /\ Preemptable
  /\ RxPublishes
  /\ LET rx == IsrReceive
     IN /\ rx_buffer' = rx.st.buf
        /\ rx_ext' = rx.st.ext
        /\ rxlog' = rx.st.log
        /\ hwrx' = rx.hw
        /\ S1_IDLE' = rx.idle
        /\ fault' = rx.st.bad
        /\ isr_head' = rx.st.head
        /\ isr_tail' = IF fifo THEN rx_buffer_tail ELSE 0
        /\ isr_got' = Len(rx.st.log) - Len(rxlog)
  /\ isr_pc' = "rxpub"
  /\ UNCHANGED <<hwtx, rxCount, regVars, rxCfg, rx_buffer_head, rx_buffer_tail, RTS,
                 getlog, rxMark, txCfg, pinVars, txVars, callVars, isr_c, isr_sent>>

\* rx_buffer_head = head; in the FIFO build the RTS test on the locals; then
\* c = UART0_C2 and the transmit-ready part.
uart0_status_isr_head ==
  /\ isr_pc = "rxpub" /\ Preemptable
  /\ rx_buffer_head' = Stored(isr_head)
  /\ RTS' = IF fifo THEN RtsAfterDrain(isr_head, isr_tail) ELSE RTS
  /\ isr_head' = 0 /\ isr_got' = 0
  /\ IsrTransmit(fault)
  /\ UNCHANGED <<hwrx, S1_IDLE, rxCount, fifo, clock, nvic, rxCfg, rx_buffer, rx_ext,
                 rx_buffer_tail, rxlog, getlog, rxMark, txCfg, pinVars, tx_buffer,
                 tx_ext, tx_buffer_head, tx_buffer_tail, transmitting, txAsked,
                 putlog, txPopped, txStale, callVars>>

\* tx_buffer_tail = tail; and, in the FIFO build,
\* if (UART0_S1 & UART_S1_TDRE) UART0_C2 = C2_TX_COMPLETING;
uart0_status_isr_publish ==
  /\ isr_pc = "pub" /\ Preemptable
  /\ tx_buffer_tail' = Stored(isr_tail)
  /\ txPopped' = txPopped + isr_sent
  /\ C2' = IF fifo /\ S1_TDRE THEN C2_TX_COMPLETING ELSE C2
  /\ isr_pc' = "tc"
  /\ UNCHANGED <<hwVars, fifo, clock, nvic, rxCfg, rxVars, txCfg, pinVars, tx_buffer, tx_ext,
                 tx_buffer_head, transmitting, txAsked, putlog, dlog, txStale,
                 callVars, isr_c, isr_head, isr_tail, isr_sent, isr_got, fault>>

\* if ((c & UART_C2_TCIE) && (UART0_S1 & UART_S1_TC)) {
\*   transmitting = 0; if (transmit_pin) transmit_deassert();
\*   if (half_duplex_mode) UART0_C3 &= ~UART_C3_TXDIR;
\*   UART0_C2 = C2_TX_INACTIVE; }
uart0_status_isr_complete ==
  /\ isr_pc = "tc" /\ Preemptable
  /\ IF "TCIE" \in isr_c /\ S1_TC
     THEN /\ transmitting' = 0
          /\ TXPIN' = IF transmit_pin THEN 0 ELSE TXPIN
          /\ TXDIR' = IF half_duplex_mode THEN 0 ELSE TXDIR
          /\ C2' = C2_TX_INACTIVE
     ELSE UNCHANGED <<transmitting, TXPIN, TXDIR, C2>>
  /\ isr_pc' = "idle" /\ isr_c' = {} /\ isr_tail' = 0 /\ isr_sent' = 0
  /\ isr_head' = 0 /\ isr_got' = 0
  /\ UNCHANGED <<hwVars, fifo, clock, nvic, rxCfg, rxVars, txCfg, transmit_pin,
                 half_duplex_mode, tx_buffer, tx_ext, tx_buffer_head,
                 tx_buffer_tail, txAsked, putlog, dlog, txPopped, txStale,
                 callVars, fault>>

\* ---------------------------------------------------------------------
\* The application's calls
\* ---------------------------------------------------------------------
Priorities == {PRIO_ABOVE, IRQ_PRIORITY, PRIO_THREAD}

\* Code in a context of priority p executes: not while the handler is
\* running unless p outranks it, and, where the handler outranks p, not
\* while the interrupt is requested (the handler is entered first).
Executes(p) ==
  /\ isr_pc = "idle" \/ p < IRQ_PRIORITY
  /\ p > IRQ_PRIORITY => ~IrqPending

\* A call can start in a context of priority p.
CanCall(p) == pc = "idle" /\ Executes(p)
\* The call in progress executes its next statement.
Running == pc # "idle" /\ Executes(prio)

Return(v) ==
  /\ pc' = "idle" /\ prio' = PRIO_THREAD
  /\ head' = 0 /\ tail' = 0 /\ c' = 0 /\ count' = 0
  /\ ret' = v

\* serial_getchar: head = rx_buffer_head;
serial_getchar(p) ==
  /\ CanCall(p)
  /\ pc' = "gc_tail" /\ prio' = p
  /\ head' = rx_buffer_head
  /\ UNCHANGED <<tail, c, count, ret>>
  /\ UNCHANGED <<hwVars, regVars, rxCfg, rxVars, txCfg, pinVars, txVars, isrVars, fault>>

\* tail = rx_buffer_tail; if (head == tail) return -1;
\* if (++tail >= rx_buffer_total_size_) tail = 0;
getchar_tail ==
  /\ Running /\ pc = "gc_tail"
  /\ IF head = rx_buffer_tail
     THEN Return(-1)
     ELSE /\ tail' = NextIndex(rx_buffer_tail, rx_buffer_total_size_)
          /\ pc' = "gc_read"
          /\ UNCHANGED <<prio, head, c, count, ret>>
  /\ UNCHANGED <<hwVars, regVars, rxCfg, rxVars, txCfg, pinVars, txVars, isrVars, fault>>

\* c = rx_buffer[tail]  or  c = rx_buffer_storage_[tail-SERIAL1_RX_BUFFER_SIZE]
getchar_read ==
  /\ Running /\ pc = "gc_read"
  /\ c' = ReadCell(tail, SERIAL1_RX_BUFFER_SIZE, rx_buffer, rx_ext)
  /\ fault' = (fault \/ ~InStorage(tail, SERIAL1_RX_BUFFER_SIZE,
                                   rx_buffer_storage_, rx_ext))
  /\ pc' = "gc_pub"
  /\ UNCHANGED <<prio, head, tail, count, ret>>
  /\ UNCHANGED <<hwVars, regVars, rxCfg, rxVars, txCfg, pinVars, txVars, isrVars>>

\* rx_buffer_tail = tail;
getchar_publish ==
  /\ Running /\ pc = "gc_pub"
  /\ rx_buffer_tail' = Stored(tail)
  /\ pc' = "gc_rts"
  /\ UNCHANGED <<prio, head, tail, c, count, ret>>
  /\ UNCHANGED <<hwVars, regVars, rxCfg, rx_buffer, rx_ext, rx_buffer_head, RTS,
                 rxlog, getlog, rxMark, txCfg, pinVars, txVars, isrVars, fault>>

\* if (rts_pin) { ...; if (avail <= rts_low_watermark_) rts_assert(); }
RtsAfterPop(h, t) ==
  IF rts_pin /\ Avail(h, t, rx_buffer_total_size_) <= rts_low_watermark_
  THEN "asserted" ELSE RTS

\* ... return c;
getchar_return ==
  /\ Running /\ pc = "gc_rts"
  /\ RTS' = RtsAfterPop(head, tail)
  /\ getlog' = Append(getlog, c)
  /\ Return(c)
  /\ UNCHANGED <<hwVars, regVars, rxCfg, rx_buffer, rx_ext, rx_buffer_head,
                 rx_buffer_tail, rxlog, rxMark, txCfg, pinVars, txVars, isrVars, fault>>

\* serial_peek: head = rx_buffer_head;
serial_peek(p) ==
  /\ CanCall(p)
  /\ pc' = "pk_tail" /\ prio' = p
  /\ head' = rx_buffer_head
  /\ UNCHANGED <<tail, c, count, ret>>
  /\ UNCHANGED <<hwVars, regVars, rxCfg, rxVars, txCfg, pinVars, txVars, isrVars, fault>>

\* tail = rx_buffer_tail; if (head == tail) return -1; ... return the cell
peek_return ==
  /\ Running /\ pc = "pk_tail"
  /\ LET t == NextIndex(rx_buffer_tail, rx_buffer_total_size_) IN
     IF head = rx_buffer_tail
     THEN Return(-1) /\ UNCHANGED fault
     ELSE /\ Return(ReadCell(t, SERIAL1_RX_BUFFER_SIZE, rx_buffer, rx_ext))
          /\ fault' = (fault \/ ~InStorage(t, SERIAL1_RX_BUFFER_SIZE,
                                           rx_buffer_storage_, rx_ext))
  /\ UNCHANGED <<hwVars, regVars, rxCfg, rxVars, txCfg, pinVars, txVars, isrVars>>

\* serial_available: head = rx_buffer_head;
serial_available(p) ==
  /\ CanCall(p)
  /\ pc' = "av_tail" /\ prio' = p
  /\ head' = rx_buffer_head
  /\ UNCHANGED <<tail, c, count, ret>>
  /\ UNCHANGED <<hwVars, regVars, rxCfg, rxVars, txCfg, pinVars, txVars, isrVars, fault>>

\* tail = rx_buffer_tail; return the occupancy
available_return ==
  /\ Running /\ pc = "av_tail"
  /\ Return(Avail(head, rx_buffer_tail, rx_buffer_total_size_))
  /\ UNCHANGED <<hwVars, regVars, rxCfg, rxVars, txCfg, pinVars, txVars, isrVars, fault>>

\* serial_putchar(c) and, in the build without the FIFO, serial_write(buf,
\* count), which calls serial_putchar count times.  The units are numbered
\* as the driver takes them up.
serial_putchar(p) ==
  /\ CanCall(p)
  /\ txAsked < MaxTx
  /\ pc' = "pc_entry" /\ prio' = p /\ count' = 1
  /\ UNCHANGED <<head, tail, c, ret>>
  /\ UNCHANGED <<hwVars, regVars, rxCfg, rxVars, txCfg, pinVars, txVars, isrVars, fault>>

serial_write(p, n) ==
  /\ CanCall(p)
  /\ ~fifo
  /\ txAsked + n <= MaxTx
  /\ IF n = 0
     THEN Return(0)
     ELSE /\ pc' = "pc_entry" /\ prio' = p /\ count' = n
          /\ UNCHANGED <<head, tail, c, ret>>
  /\ UNCHANGED <<hwVars, regVars, rxCfg, rxVars, txCfg, pinVars, txVars, isrVars, fault>>

\* (mutant) the clock gate is taken to be open.
ClockGated_Never == FALSE

\* !(SIM_SCGC4 & SIM_SCGC4_UART0)
ClockGated == ~clock

\* if (transmit_pin) transmit_assert();
\* if (half_duplex_mode) UART0_C3 |= UART_C3_TXDIR;
TransmitAssert ==
  /\ TXPIN' = IF transmit_pin THEN 1 ELSE TXPIN
  /\ TXDIR' = IF half_duplex_mode THEN 1 ELSE TXDIR
  /\ UNCHANGED <<transmit_pin, half_duplex_mode>>

\* head = tx_buffer_head; if (++head >= tx_buffer_total_size_) head = 0;
TxHead ==
  /\ head' = NextIndex(tx_buffer_head, tx_buffer_total_size_)
  /\ c' = txAsked + 1
  /\ txAsked' = txAsked + 1
  /\ pc' = "pc_wait"
  /\ UNCHANGED <<prio, tail, count, ret>>

\* if (!(SIM_SCGC4 & SIM_SCGC4_UART0)) return;
\* then the transmit pin and direction where one is configured, else
\* directly the read of tx_buffer_head.
putchar_entry ==
  /\ Running /\ pc = "pc_entry"
  /\ IF ClockGated
     THEN /\ IF count > 1
             THEN count' = count - 1 /\ UNCHANGED <<pc, prio, head, tail, c, ret>>
             ELSE Return(0)
          /\ UNCHANGED <<txAsked, pinVars>>
     ELSE IF transmit_pin \/ half_duplex_mode
          THEN /\ TransmitAssert
               /\ pc' = "pc_head"
               /\ UNCHANGED <<prio, head, tail, c, count, ret, txAsked>>
          ELSE TxHead /\ UNCHANGED pinVars
  /\ UNCHANGED <<hwVars, regVars, rxCfg, rxVars, txCfg, tx_buffer, tx_ext,
                 tx_buffer_head, tx_buffer_tail, transmitting, putlog, dlog,
                 txPopped, txStale, isrVars, fault>>

\* The read of tx_buffer_head after the transmit pin was asserted.
putchar_head ==
  /\ Running /\ pc = "pc_head"
  /\ TxHead
  /\ UNCHANGED <<hwVars, regVars, rxCfg, rxVars, txCfg, pinVars, tx_buffer, tx_ext,
                 tx_buffer_head, tx_buffer_tail, transmitting, putlog, dlog,
                 txPopped, txStale, isrVars, fault>>

\* (mutant) the writer never finds the ring full.
TxFull_Never(t, h) == FALSE

\* while (tx_buffer_tail == head): the slot after the head is the tail's.
TxFull(t, h) == t = h

\* The wait loop with the ring full, in a context the UART interrupt cannot
\* preempt, once transmit-ready is set: one unit goes from the ring to
\* UART0_D and tx_buffer_tail advances.
TxInline(at) ==
  /\ Running /\ pc = at
  /\ TxFull(tx_buffer_tail, head)
  /\ prio <= IRQ_PRIORITY
  /\ S1_TDRE
  /\ LET st == TxPop(tx_buffer_tail, hwtx, dlog, fault) IN
     /\ hwtx' = st.hw
     /\ dlog' = st.log
     /\ tx_buffer_tail' = Stored(st.tail)
     /\ fault' = st.bad
  /\ txPopped' = txPopped + 1
  /\ txStale' = (txStale \/ isr_pc = "pub")
  /\ UNCHANGED <<hwrx, S1_IDLE, rxCount, regVars, rxCfg, rxVars, txCfg, pinVars, tx_buffer,
                 tx_ext, tx_buffer_head, transmitting, txAsked, putlog, callVars,
                 isrVars>>

\* The loop ends once tx_buffer_tail != head; then
\* tx_buffer[head] = c  or  tx_buffer_storage_[head - SERIAL1_TX_BUFFER_SIZE] = c
TxStore(at, to) ==
  /\ Running /\ pc = at
  /\ ~TxFull(tx_buffer_tail, head)
  /\ tx_buffer' = WriteBase(head, SERIAL1_TX_BUFFER_SIZE, tx_buffer, c)
  /\ tx_ext' = WriteExt(head, SERIAL1_TX_BUFFER_SIZE, tx_ext, c)
  /\ fault' = (fault \/ ~InStorage(head, SERIAL1_TX_BUFFER_SIZE,
                                   tx_buffer_storage_, tx_ext))
  /\ pc' = to
  /\ UNCHANGED <<prio, head, tail, c, count, ret>>
  /\ UNCHANGED <<hwVars, regVars, rxCfg, rxVars, txCfg, pinVars, tx_buffer_head,
                 tx_buffer_tail, transmitting, txAsked, putlog, dlog, txPopped,
                 txStale, isrVars>>

\* transmitting = 1;
TxFlag(at, to) ==
  /\ Running /\ pc = at
  /\ transmitting' = 1
  /\ pc' = to
  /\ UNCHANGED <<prio, head, tail, c, count, ret>>
  /\ UNCHANGED <<hwVars, regVars, rxCfg, rxVars, txCfg, pinVars, tx_buffer, tx_ext,
                 tx_buffer_head, tx_buffer_tail, txAsked, putlog, dlog, txPopped,
                 txStale, isrVars, fault>>

putchar_inline == TxInline("pc_wait")
putchar_store == TxStore("pc_wait", "pc_flag")
putchar_flag == TxFlag("pc_flag", "pc_pub")

\* tx_buffer_head = head;
putchar_publish ==
  /\ Running /\ pc = "pc_pub"
  /\ tx_buffer_head' = Stored(head)
  /\ putlog' = Append(putlog, c)
  /\ pc' = "pc_c2"
  /\ UNCHANGED <<prio, head, tail, c, count, ret>>
  /\ UNCHANGED <<hwVars, regVars, rxCfg, rxVars, txCfg, pinVars, tx_buffer, tx_ext,
                 tx_buffer_tail, transmitting, txAsked, dlog, txPopped, txStale,
                 isrVars, fault>>

\* UART0_C2 = C2_TX_ACTIVE; and the next serial_putchar of a serial_write
putchar_enable ==
  /\ Running /\ pc = "pc_c2"
  /\ C2' = C2_TX_ACTIVE
  /\ IF count > 1
     THEN /\ count' = count - 1 /\ pc' = "pc_entry"
          /\ UNCHANGED <<prio, head, tail, c, ret>>
     ELSE Return(0)
  /\ UNCHANGED <<hwVars, fifo, clock, nvic, rxCfg, rxVars, txCfg, pinVars, txVars, isrVars,
                 fault>>

\* serial_write(buf, count) of the FIFO build:
\* if (!(SIM_SCGC4 & SIM_SCGC4_UART0)) return;
\* if (transmit_pin) transmit_assert();
serial_write_fifo(p, n) ==
  /\ CanCall(p)
  /\ fifo
  /\ txAsked + n <= MaxTx
  /\ IF ClockGated
     THEN Return(0) /\ UNCHANGED pinVars
     ELSE /\ pc' = "sw_loop" /\ prio' = p /\ count' = n
          /\ TransmitAssert
          /\ UNCHANGED <<head, tail, c, ret>>
  /\ UNCHANGED <<hwVars, regVars, rxCfg, rxVars, txCfg, txVars, isrVars, fault>>

\* while (p < end) { head = tx_buffer_head;
\*   if (++head >= tx_buffer_total_size_) head = 0;
\*   if (tx_buffer_tail == head) ...
write_loop ==
  /\ Running /\ pc = "sw_loop"
  /\ IF count = 0
     THEN pc' = "sw_end" /\ UNCHANGED <<head, c, txAsked>>
     ELSE LET h == NextIndex(tx_buffer_head, tx_buffer_total_size_) IN
          /\ head' = h
          /\ c' = txAsked + 1
          /\ txAsked' = txAsked + 1
          /\ pc' = IF TxFull(tx_buffer_tail, h) THEN "sw_c2" ELSE "sw_wait"
  /\ UNCHANGED <<prio, tail, count, ret>>
  /\ UNCHANGED <<hwVars, regVars, rxCfg, rxVars, txCfg, pinVars, tx_buffer, tx_ext,
                 tx_buffer_head, tx_buffer_tail, transmitting, putlog, dlog,
                 txPopped, txStale, isrVars, fault>>

\* ... { UART0_C2 = C2_TX_ACTIVE; do { ... } while (tx_buffer_tail == head); }
write_full ==
  /\ Running /\ pc = "sw_c2"
  /\ C2' = C2_TX_ACTIVE
  /\ pc' = "sw_wait"
  /\ UNCHANGED <<prio, head, tail, c, count, ret>>
  /\ UNCHANGED <<hwVars, fifo, clock, nvic, rxCfg, rxVars, txCfg, pinVars, txVars, isrVars,
                 fault>>

write_inline == TxInline("sw_wait")
write_store == TxStore("sw_wait", "sw_flag")
write_flag == TxFlag("sw_flag", "sw_pub")

\* tx_buffer_head = head; }
write_publish ==
  /\ Running /\ pc = "sw_pub"
  /\ tx_buffer_head' = Stored(head)
  /\ putlog' = Append(putlog, c)
  /\ count' = count - 1
  /\ pc' = "sw_loop"
  /\ UNCHANGED <<prio, head, tail, c, ret>>
  /\ UNCHANGED <<hwVars, regVars, rxCfg, rxVars, txCfg, pinVars, tx_buffer, tx_ext,
                 tx_buffer_tail, transmitting, txAsked, dlog, txPopped, txStale,
                 isrVars, fault>>

\* UART0_C2 = C2_TX_ACTIVE;
write_end ==
  /\ Running /\ pc = "sw_end"
  /\ C2' = C2_TX_ACTIVE
  /\ Return(0)
  /\ UNCHANGED <<hwVars, fifo, clock, nvic, rxCfg, rxVars, txCfg, pinVars, txVars, isrVars,
                 fault>>

\* serial_flush: while (transmitting) yield();
serial_flush(p) ==
  /\ CanCall(p)
  /\ pc' = "flush" /\ prio' = p
  /\ UNCHANGED <<head, tail, c, count, ret>>
  /\ UNCHANGED <<hwVars, regVars, rxCfg, rxVars, txCfg, pinVars, txVars, isrVars, fault>>

flush_return ==
  /\ Running /\ pc = "flush"
  /\ transmitting = 0
  /\ Return(0)
  /\ UNCHANGED <<hwVars, regVars, rxCfg, rxVars, txCfg, pinVars, txVars, isrVars, fault>>

\* if (head >= tail) return tx_buffer_total_size_ - 1 - head + tail;
\* return tail - head - 1;
WriteBufferFree(h, t, total) == IF h >= t THEN total - 1 - h + t ELSE t - h - 1

\* serial_write_buffer_free: head = tx_buffer_head;
serial_write_buffer_free(p) ==
  /\ CanCall(p)
  /\ pc' = "wf_tail" /\ prio' = p
  /\ head' = tx_buffer_head
  /\ UNCHANGED <<tail, c, count, ret>>
  /\ UNCHANGED <<hwVars, regVars, rxCfg, rxVars, txCfg, pinVars, txVars, isrVars, fault>>

\* tail = tx_buffer_tail; return the free space
write_buffer_free_return ==
  /\ Running /\ pc = "wf_tail"
  /\ Return(WriteBufferFree(head, tx_buffer_tail, tx_buffer_total_size_))
  /\ UNCHANGED <<hwVars, regVars, rxCfg, rxVars, txCfg, pinVars, txVars, isrVars, fault>>

\* The last unit the handler has stored and published.
LastPublished ==
  IF Len(rxlog) > isr_got THEN rxlog[Len(rxlog) - isr_got] ELSE 0

\* The receive enable and the receive interrupts.
C2_RX == {"RE", "RIE", "ILIE"}

\* serial_clear.  FIFO build: if (!(SIM_SCGC4 & SIM_SCGC4_UART0)) return;
\* and the read of UART0_C2 for UART0_C2 &= ~(RE | RIE | ILIE).
serial_clear(p) ==
  /\ CanCall(p)
  /\ IF fifo /\ ClockGated
     THEN Return(0) /\ UNCHANGED rxMark
     ELSE /\ rxMark' = LastPublished
          /\ pc' = (IF fifo THEN "cl_off" ELSE "cl_head") /\ prio' = p
          /\ c' = (IF fifo THEN C2 ELSE c)
          /\ UNCHANGED <<head, tail, count, ret>>
  /\ UNCHANGED <<hwVars, regVars, rxCfg, rx_buffer, rx_ext, rx_buffer_head,
                 rx_buffer_tail, RTS, rxlog, getlog, txCfg, pinVars, txVars,
                 isrVars, fault>>

\* UART0_C2 &= ~(RE | RIE | ILIE): the write; UART0_CFIFO = UART_CFIFO_RXFLUSH;
clear_off ==
  /\ Running /\ pc = "cl_off"
  /\ C2' = c \ C2_RX
  /\ hwrx' = <<>>
  /\ pc' = "cl_rd"
  /\ UNCHANGED <<prio, head, tail, c, count, ret>>
  /\ UNCHANGED <<S1_IDLE, hwtx, rxCount, fifo, clock, nvic, rxCfg, rxVars, txCfg,
                 pinVars, txVars, isrVars, fault>>

\* UART0_C2 |= (RE | RIE | ILIE): the read
clear_read ==
  /\ Running /\ pc = "cl_rd"
  /\ c' = C2
  /\ pc' = "cl_on"
  /\ UNCHANGED <<prio, head, tail, count, ret>>
  /\ UNCHANGED <<hwVars, regVars, rxCfg, rxVars, txCfg, pinVars, txVars, isrVars,
                 fault>>

\* UART0_C2 |= (RE | RIE | ILIE): the write
clear_on ==
  /\ Running /\ pc = "cl_on"
  /\ C2' = c \cup C2_RX
  /\ pc' = "cl_head"
  /\ UNCHANGED <<prio, head, tail, c, count, ret>>
  /\ UNCHANGED <<hwVars, fifo, clock, nvic, rxCfg, rxVars, txCfg, pinVars, txVars,
                 isrVars, fault>>

\* rx_buffer_head = rx_buffer_tail;  (count: the units stored by then)
clear_head ==
  /\ Running /\ pc = "cl_head"
  /\ rx_buffer_head' = rx_buffer_tail
  /\ count' = Len(rxlog)
  /\ pc' = "cl_rts"
  /\ UNCHANGED <<prio, head, tail, c, ret>>
  /\ UNCHANGED <<hwVars, regVars, rxCfg, rx_buffer, rx_ext, rx_buffer_tail, RTS,
                 rxlog, getlog, rxMark, txCfg, pinVars, txVars, isrVars, fault>>

\* if (rts_pin) rts_assert();
clear_rts ==
  /\ Running /\ pc = "cl_rts"
  /\ RTS' = IF rts_pin THEN "asserted" ELSE RTS
  /\ Return(0)
  /\ UNCHANGED <<hwVars, regVars, rxCfg, rx_buffer, rx_ext, rx_buffer_head,
                 rx_buffer_tail, rxlog, getlog, rxMark, txCfg, pinVars, txVars,
                 isrVars, fault>>

\* serial_end: if (!(SIM_SCGC4 & SIM_SCGC4_UART0)) return;
serial_end(p) ==
  /\ CanCall(p)
  /\ IF ClockGated
     THEN Return(0)
     ELSE /\ pc' = "end" /\ prio' = p
          /\ UNCHANGED <<head, tail, c, count, ret>>
  /\ UNCHANGED <<hwVars, regVars, rxCfg, rxVars, txCfg, pinVars, txVars, isrVars,
                 fault>>

\* while (transmitting) yield();  then
\* NVIC_DISABLE_IRQ(IRQ_UART0_STATUS); UART0_C2 = 0; ...; UART0_S1; UART0_D;
\* rx_buffer_head = 0; rx_buffer_tail = 0; if (rts_pin) rts_deassert();
end_disable ==
  /\ Running /\ pc = "end"
  /\ transmitting = 0
  /\ nvic' = FALSE
  /\ C2' = {}
  /\ hwrx' = IF hwrx = <<>> THEN hwrx ELSE Tail(hwrx)
  /\ S1_IDLE' = FALSE
  /\ rx_buffer_head' = 0 /\ rx_buffer_tail' = 0
  /\ RTS' = IF rts_pin THEN "deasserted" ELSE RTS
  /\ Return(0)
  /\ UNCHANGED <<hwtx, rxCount, fifo, clock, rxCfg, rx_buffer, rx_ext, rxlog, getlog, rxMark,
                 txCfg, pinVars, txVars, isrVars, fault>>

\* ---------------------------------------------------------------------
\* The receive side: the state after serial_add_memory_for_read,
\* serial_begin and serial_set_rts, then the receive API against the
\* handler and the wire.
\* ---------------------------------------------------------------------
\* No transmit pin and no half-duplex mode (the statics at power-on).
NoPins ==
  /\ transmit_pin = FALSE /\ TXPIN = 0
  /\ half_duplex_mode = FALSE /\ TXDIR = 0

TxBoot ==
  /\ tx_buffer = [i \in 0..(SERIAL1_TX_BUFFER_SIZE - 1) |-> 0]
  /\ tx_buffer_head = 0 /\ tx_buffer_tail = 0
  /\ transmitting = 0
  /\ txAsked = 0 /\ putlog = <<>> /\ dlog = <<>> /\ txPopped = 0 /\ txStale = FALSE

RxBoot ==
  /\ rx_buffer = [i \in 0..(SERIAL1_RX_BUFFER_SIZE - 1) |-> 0]
  /\ rx_buffer_head = 0 /\ rx_buffer_tail = 0
  /\ rxlog = <<>> /\ getlog = <<>> /\ rxMark = 0

CallBoot ==
  /\ pc = "idle" /\ prio = PRIO_THREAD
  /\ head = 0 /\ tail = 0 /\ c = 0 /\ count = 0 /\ ret = 0
  /\ isr_pc = "idle" /\ isr_c = {} /\ isr_head = 0 /\ isr_tail = 0
  /\ isr_sent = 0 /\ isr_got = 0
  /\ fault = FALSE

HwBoot == hwrx = <<>> /\ S1_IDLE = FALSE /\ hwtx = 0 /\ rxCount = 0

\* serial_add_memory_for_read(buffer, length) with a buffer of length cells
RxExtension(len) ==
  /\ rx_buffer_storage_ = IF len > 0 THEN "buf" ELSE "NULL"
  /\ rx_ext = [i \in 1..len |-> 0]
  /\ rx_buffer_total_size_ = SERIAL1_RX_BUFFER_SIZE + len
  /\ rts_low_watermark_ = RTS_LOW_WATERMARK + len
  /\ rts_high_watermark_ = RTS_HIGH_WATERMARK + len

TxExtension(len) ==
  /\ tx_buffer_storage_ = IF len > 0 THEN "buf" ELSE "NULL"
  /\ tx_ext = [i \in 1..len |-> 0]
  /\ tx_buffer_total_size_ = SERIAL1_TX_BUFFER_SIZE + len

\* The extension lengths tried: the short ones, and the shortest one that
\* takes the total size past the range of the indices.
ExtLengths(base) == (0..MaxExt) \cup {IndexWrap - base + 1}

InitRx ==
  /\ fifo \in BOOLEAN
  /\ clock = TRUE /\ nvic = TRUE /\ C2 = C2_TX_INACTIVE
  /\ HwBoot /\ RxBoot /\ TxBoot /\ CallBoot
  /\ \E len \in ExtLengths(SERIAL1_RX_BUFFER_SIZE) : RxExtension(len)
  /\ TxExtension(0)
  /\ NoPins
  /\ rts_pin \in BOOLEAN
  /\ RTS = IF rts_pin THEN "asserted" ELSE "none"

NextRx ==
  \/ HwReceive
  \/ HwIdle
  \/ uart0_status_isr
  \/ uart0_status_isr_complete
  \/ \E p \in Priorities : serial_getchar(p)
  \/ getchar_tail
  \/ getchar_read
  \/ getchar_publish
  \/ getchar_return
  \/ \E p \in Priorities : serial_peek(p)
  \/ peek_return
  \/ \E p \in Priorities : serial_available(p)
  \/ available_return

SpecRx == InitRx /\ [][NextRx]_vars

\* The receive side with serial_clear, the handler cut where it assigns
\* rx_buffer_head.
MaxRxClear == 3

InitClear ==
  /\ fifo \in BOOLEAN
  /\ clock = TRUE /\ nvic = TRUE /\ C2 = C2_TX_INACTIVE
  /\ HwBoot /\ RxBoot /\ TxBoot /\ CallBoot
  /\ \E len \in 0..MaxExt : RxExtension(len)
  /\ TxExtension(0)
  /\ NoPins
  /\ rts_pin \in BOOLEAN
  /\ RTS = IF rts_pin THEN "asserted" ELSE "none"

ClearNext(callers) ==
  \/ rxCount < MaxRxClear /\ HwReceive
  \/ HwIdle
  \/ ~RxPublishes /\ uart0_status_isr
  \/ uart0_status_isr_store
  \/ uart0_status_isr_head
  \/ uart0_status_isr_complete
  \/ \E p \in callers : serial_getchar(p)
  \/ getchar_tail
  \/ getchar_read
  \/ getchar_publish
  \/ getchar_return
  \/ \E p \in callers : serial_peek(p)
  \/ peek_return
  \/ \E p \in callers : serial_clear(p)
  \/ clear_off
  \/ clear_read
  \/ clear_on
  \/ clear_head
  \/ clear_rts

NextClear == ClearNext(Priorities)
SpecClear == InitClear /\ [][NextClear]_vars

\* ---------------------------------------------------------------------
\* The transmit side: the state after serial_add_memory_for_write,
\* serial_begin, and serial_set_transmit_pin or serial_format where a
\* transmit pin or the half-duplex mode (build without the FIFO) is used;
\* then the transmit API against the handler and the wire.
\* ---------------------------------------------------------------------
InitTx ==
  /\ fifo \in BOOLEAN
  /\ clock = TRUE /\ nvic = TRUE /\ C2 = C2_TX_INACTIVE
  /\ HwBoot /\ RxBoot /\ TxBoot /\ CallBoot
  /\ RxExtension(0)
  /\ \E len \in 0..MaxExt : TxExtension(len)
  /\ transmit_pin \in BOOLEAN /\ TXPIN = 0
  /\ half_duplex_mode \in (IF fifo THEN {FALSE} ELSE BOOLEAN) /\ TXDIR = 0
  /\ rts_pin = FALSE /\ RTS = "none"

TxNext(callers) ==
  \/ HwTransmit
  \/ uart0_status_isr
  \/ uart0_status_isr_publish
  \/ uart0_status_isr_complete
  \/ \E p \in callers : serial_putchar(p)
  \/ \E p \in callers, n \in 0..MaxCount : serial_write(p, n)
  \/ putchar_entry
  \/ putchar_head
  \/ putchar_inline
  \/ putchar_store
  \/ putchar_flag
  \/ putchar_publish
  \/ putchar_enable
  \/ \E p \in callers, n \in 0..MaxCount : serial_write_fifo(p, n)
  \/ write_loop
  \/ write_full
  \/ write_inline
  \/ write_store
  \/ write_flag
  \/ write_publish
  \/ write_end
  \/ \E p \in callers : serial_flush(p)
  \/ flush_return
  \/ \E p \in callers : serial_write_buffer_free(p)
  \/ write_buffer_free_return

NextTx == TxNext(Priorities)

SpecTx == InitTx /\ [][NextTx]_vars

\* The same with no caller that preempts the handler.
ThreadPriorities == {IRQ_PRIORITY, PRIO_THREAD}
NextTxThread == TxNext(ThreadPriorities)
SpecTxThread == InitTx /\ [][NextTxThread]_vars

\* ---------------------------------------------------------------------
\* The whole driver from power-on: the channel is disabled, the rings have
\* their base size; serial_begin enables it, and the extension storage is
\* installed and removed at run time.
\* ---------------------------------------------------------------------
\* serial_begin(divisor) on a disabled channel: the clock gate opens, the
\* four indices and transmitting are zeroed, UART0_C2 = C2_TX_INACTIVE and
\* the interrupt is enabled in the NVIC.
serial_begin(p) ==
  /\ CanCall(p)
  /\ ~clock
  /\ clock' = TRUE
  /\ rx_buffer_head' = 0 /\ rx_buffer_tail' = 0
  /\ tx_buffer_head' = 0 /\ tx_buffer_tail' = 0
  /\ transmitting' = 0
  /\ C2' = C2_TX_INACTIVE
  /\ nvic' = TRUE
  /\ UNCHANGED <<hwVars, fifo, rxCfg, rx_buffer, rx_ext, RTS, rxlog, getlog, rxMark, txCfg, pinVars,
                 tx_buffer, tx_ext, txAsked, putlog, dlog, txPopped, txStale,
                 callVars, isrVars, fault>>

\* The storage a caller passes: a null pointer, or a buffer of length cells.
Buffers == {"NULL", "buf"}
\* (mutant) the total size follows the length whatever the buffer is.
ExtTotal_AnyBuffer(base, buffer, length) == base + length

ExtTotal(base, buffer, length) == IF buffer # "NULL" THEN base + length ELSE base
ExtCells(buffer, length) == IF buffer # "NULL" THEN [i \in 1..length |-> 0] ELSE <<>>

\* serial_add_memory_for_read(buffer, length)
serial_add_memory_for_read(p, buffer, length) ==
  /\ CanCall(p)
  /\ rx_buffer_storage_' = buffer
  /\ rx_ext' = ExtCells(buffer, length)
  /\ rx_buffer_total_size_' = ExtTotal(SERIAL1_RX_BUFFER_SIZE, buffer, length)
  /\ rts_low_watermark_' = RTS_LOW_WATERMARK + length
  /\ rts_high_watermark_' = RTS_HIGH_WATERMARK + length
  /\ UNCHANGED <<hwVars, regVars, rts_pin, rx_buffer, rx_buffer_head,
                 rx_buffer_tail, RTS, rxlog, getlog, rxMark, txCfg, pinVars, txVars, callVars,
                 isrVars, fault>>

\* serial_add_memory_for_write(buffer, length)
serial_add_memory_for_write(p, buffer, length) ==
  /\ CanCall(p)
  /\ tx_buffer_storage_' = buffer
  /\ tx_ext' = ExtCells(buffer, length)
  /\ tx_buffer_total_size_' = ExtTotal(SERIAL1_TX_BUFFER_SIZE, buffer, length)
  /\ UNCHANGED <<hwVars, regVars, rxCfg, rxVars, pinVars, tx_buffer,
                 tx_buffer_head, tx_buffer_tail, transmitting, txAsked, putlog,
                 dlog, txPopped, txStale, callVars, isrVars, fault>>

Init ==
  /\ fifo \in BOOLEAN
  /\ clock = FALSE /\ nvic = FALSE /\ C2 = {}
  /\ HwBoot /\ RxBoot /\ TxBoot /\ CallBoot
  /\ RxExtension(0)
  /\ TxExtension(0)
  /\ NoPins
  /\ rts_pin \in BOOLEAN
  /\ RTS = IF rts_pin THEN "asserted" ELSE "none"

\* The contexts the whole-driver specification calls from: one the handler
\* cannot preempt and the main program.
WholePriorities == {IRQ_PRIORITY, PRIO_THREAD}

Next ==
  \/ rxCount < MaxRxWhole /\ HwReceive
  \/ HwIdle
  \/ HwTransmit
  \/ Len(dlog) <= MaxTxWhole /\ uart0_status_isr
  \/ uart0_status_isr_publish
  \/ uart0_status_isr_complete
  \/ \E p \in WholePriorities : serial_begin(p)
  \/ \E p \in WholePriorities, b \in Buffers, n \in 0..MaxExt :
       serial_add_memory_for_read(p, b, n)
  \/ \E p \in WholePriorities, b \in Buffers, n \in 0..MaxExt :
       serial_add_memory_for_write(p, b, n)
  \/ \E p \in WholePriorities : txAsked < MaxTxWhole /\ serial_putchar(p)
  \/ putchar_entry
  \/ putchar_inline
  \/ putchar_store
  \/ putchar_flag
  \/ putchar_publish
  \/ putchar_enable
  \/ \E p \in WholePriorities : Len(getlog) < MaxRxWhole /\ serial_getchar(p)
  \/ getchar_tail
  \/ getchar_read
  \/ getchar_publish
  \/ getchar_return
  \/ \E p \in WholePriorities : serial_available(p)
  \/ available_return
  \/ \E p \in WholePriorities : serial_write_buffer_free(p)
  \/ write_buffer_free_return

Spec == Init /\ [][Next]_vars

\* ---------------------------------------------------------------------
\* The whole driver with the extension calls cut at their assignments: the
\* handler can run between rx_buffer_storage_ = buffer and the assignment of
\* rx_buffer_total_size_.  An extension is installed or removed only on an
\* empty ring.
\* ---------------------------------------------------------------------
\* serial_add_memory_for_read: rx_buffer_storage_ = (BUFTYPE*)buffer;
add_memory_for_read(p, buffer, length) ==
  /\ CanCall(p)
  /\ rx_buffer_storage_' = buffer
  /\ rx_ext' = ExtCells(buffer, length)
  /\ pc' = "amr_total" /\ prio' = p /\ count' = length
  /\ UNCHANGED <<head, tail, c, ret>>
  /\ UNCHANGED <<hwVars, regVars, rx_buffer_total_size_, rts_low_watermark_,
                 rts_high_watermark_, rts_pin, rx_buffer, rx_buffer_head,
                 rx_buffer_tail, RTS, rxlog, getlog, rxMark, txCfg, pinVars, txVars,
                 isrVars, fault>>

\* if (buffer) rx_buffer_total_size_ = SERIAL1_RX_BUFFER_SIZE + length;
\* else rx_buffer_total_size_ = SERIAL1_RX_BUFFER_SIZE;
add_memory_for_read_total ==
  /\ Running /\ pc = "amr_total"
  /\ rx_buffer_total_size_' = ExtTotal(SERIAL1_RX_BUFFER_SIZE, rx_buffer_storage_, count)
  /\ pc' = "amr_low"
  /\ UNCHANGED <<prio, head, tail, c, count, ret>>
  /\ UNCHANGED <<hwVars, regVars, rx_buffer_storage_, rts_low_watermark_,
                 rts_high_watermark_, rts_pin, rxVars, txCfg, pinVars, txVars,
                 isrVars, fault>>

\* rts_low_watermark_ = RTS_LOW_WATERMARK + length;
add_memory_for_read_low ==
  /\ Running /\ pc = "amr_low"
  /\ rts_low_watermark_' = RTS_LOW_WATERMARK + count
  /\ pc' = "amr_high"
  /\ UNCHANGED <<prio, head, tail, c, count, ret>>
  /\ UNCHANGED <<hwVars, regVars, rx_buffer_storage_, rx_buffer_total_size_,
                 rts_high_watermark_, rts_pin, rxVars, txCfg, pinVars, txVars,
                 isrVars, fault>>

\* rts_high_watermark_ = RTS_HIGH_WATERMARK + length;
add_memory_for_read_high ==
  /\ Running /\ pc = "amr_high"
  /\ rts_high_watermark_' = RTS_HIGH_WATERMARK + count
  /\ Return(0)
  /\ UNCHANGED <<hwVars, regVars, rx_buffer_storage_, rx_buffer_total_size_,
                 rts_low_watermark_, rts_pin, rxVars, txCfg, pinVars, txVars,
                 isrVars, fault>>

\* serial_add_memory_for_write: tx_buffer_storage_ = (BUFTYPE*)buffer;
add_memory_for_write(p, buffer, length) ==
  /\ CanCall(p)
  /\ tx_buffer_storage_' = buffer
  /\ tx_ext' = ExtCells(buffer, length)
  /\ pc' = "amw_total" /\ prio' = p /\ count' = length
  /\ UNCHANGED <<head, tail, c, ret>>
  /\ UNCHANGED <<hwVars, regVars, rxCfg, rxVars, tx_buffer_total_size_, pinVars,
                 tx_buffer, tx_buffer_head, tx_buffer_tail, transmitting, txAsked,
                 putlog, dlog, txPopped, txStale, isrVars, fault>>

\* if (buffer) tx_buffer_total_size_ = SERIAL1_TX_BUFFER_SIZE + length;
\* else tx_buffer_total_size_ = SERIAL1_TX_BUFFER_SIZE;
add_memory_for_write_total ==
  /\ Running /\ pc = "amw_total"
  /\ tx_buffer_total_size_' = ExtTotal(SERIAL1_TX_BUFFER_SIZE, tx_buffer_storage_, count)
  /\ Return(0)
  /\ UNCHANGED <<hwVars, regVars, rxCfg, rxVars, tx_buffer_storage_, pinVars, txVars,
                 isrVars, fault>>

\* The units this specification receives and submits.
MaxRxExt == 5
MaxTxExt == 1

\* The build without the FIFO, no RTS pin.
InitExt == Init /\ ~fifo /\ ~rts_pin

\* The extension calls made: a buffer of MaxExt cells is installed, or the
\* extension is removed.
ExtArgs == {<<"buf", MaxExt>>, <<"NULL", 0>>}

\* Every call is made from thread mode.
ExtPriorities == {PRIO_THREAD}

NextExt ==
  \/ rxCount < MaxRxExt /\ HwReceive
  \/ HwTransmit
  \/ uart0_status_isr
  \/ uart0_status_isr_publish
  \/ uart0_status_isr_complete
  \/ \E p \in ExtPriorities : serial_begin(p)
  \/ \E p \in ExtPriorities, a \in ExtArgs :
       rx_buffer_head = rx_buffer_tail /\ add_memory_for_read(p, a[1], a[2])
  \/ add_memory_for_read_total
  \/ add_memory_for_read_low
  \/ add_memory_for_read_high
  \/ \E p \in ExtPriorities, a \in ExtArgs :
       tx_buffer_head = tx_buffer_tail /\ add_memory_for_write(p, a[1], a[2])
  \/ add_memory_for_write_total
  \/ \E p \in ExtPriorities : txAsked < MaxTxExt /\ serial_putchar(p)
  \/ putchar_entry
  \/ putchar_store
  \/ putchar_flag
  \/ putchar_publish
  \/ putchar_enable
  \/ \E p \in ExtPriorities : Len(getlog) < MaxRxExt /\ serial_getchar(p)
  \/ getchar_tail
  \/ getchar_read
  \/ getchar_publish
  \/ getchar_return
  \/ \E p \in ExtPriorities : serial_clear(p)
  \/ clear_head
  \/ clear_rts

SpecExt == InitExt /\ [][NextExt]_vars

\* ---------------------------------------------------------------------
\* The life cycle of the transmit side: power-on, serial_begin, the
\* transmit API against the handler and the wire, serial_end.
\* ---------------------------------------------------------------------
InitLife ==
  /\ fifo \in BOOLEAN
  /\ clock = FALSE /\ nvic = FALSE /\ C2 = {}
  /\ HwBoot /\ RxBoot /\ TxBoot /\ CallBoot
  /\ RxExtension(0)
  /\ TxExtension(0)
  /\ transmit_pin \in BOOLEAN /\ TXPIN = 0
  /\ half_duplex_mode = FALSE /\ TXDIR = 0
  /\ rts_pin = FALSE /\ RTS = "none"

NextLife ==
  \/ TxNext(ThreadPriorities)
  \/ \E p \in ThreadPriorities : serial_begin(p)
  \/ \E p \in ThreadPriorities : serial_end(p)
  \/ end_disable

SpecLife == InitLife /\ [][NextLife]_vars

\* The same with every call made from thread mode, which the UART interrupt
\* preempts, and none made after serial_end; the hardware transmits, the
\* handler runs when its interrupt is requested, and the call in progress
\* runs when no handler does.
Ended == clock /\ ~nvic

IsrStep ==
  \/ uart0_status_isr
  \/ uart0_status_isr_publish
  \/ uart0_status_isr_complete

CallStep ==
  \/ putchar_entry
  \/ putchar_head
  \/ putchar_store
  \/ putchar_flag
  \/ putchar_publish
  \/ putchar_enable
  \/ write_loop
  \/ write_full
  \/ write_store
  \/ write_flag
  \/ write_publish
  \/ write_end
  \/ flush_return
  \/ end_disable

NextLive ==
  \/ HwTransmit
  \/ IsrStep
  \/ CallStep
  \/ serial_begin(PRIO_THREAD)
  \/ ~Ended /\ serial_putchar(PRIO_THREAD)
  \/ \E n \in 0..MaxCount : ~Ended /\ serial_write(PRIO_THREAD, n)
  \/ \E n \in 0..MaxCount : ~Ended /\ serial_write_fifo(PRIO_THREAD, n)
  \/ serial_flush(PRIO_THREAD)
  \/ serial_end(PRIO_THREAD)

SpecLive ==
  /\ InitLife /\ [][NextLive]_vars
  /\ WF_vars(HwTransmit)
  /\ WF_vars(IsrStep)
  /\ WF_vars(CallStep)

\* ---------------------------------------------------------------------
\* Properties of the receive side
\* ---------------------------------------------------------------------
\* Units in the RX ring, as serial_available computes it from the indices.
RxOccupancy == Avail(rx_buffer_head, rx_buffer_tail, rx_buffer_total_size_)
RxFull == NextIndex(rx_buffer_head, rx_buffer_total_size_) = rx_buffer_tail
\* The cell i places after the tail.
RxSlot(i) ==
  ReadCell((rx_buffer_tail + i) % rx_buffer_total_size_, SERIAL1_RX_BUFFER_SIZE,
           rx_buffer, rx_ext)
\* Units the handler has read from UART0_D.
RxEvents == rxCount - Len(hwrx)
\* A step that enters the handler, and one in which it reads a unit.
IsrEntry == isr_pc = "idle" /\ isr_pc' # "idle"
IsrReceives ==
  /\ IsrEntry
  /\ IF fifo THEN (S1_RDRF \/ S1_IDLE) /\ RCFIFO > 0 ELSE S1_RDRF
\* The successful serial_getchar in progress has advanced rx_buffer_tail.
GetcharPopped == IF pc = "gc_rts" THEN 1 ELSE 0
Min(a, b) == IF a <= b THEN a ELSE b

\* C1: the values successful serial_getchar calls returned are the units the
\* handler stored, in order: a prefix of them, the next call returns the
\* next one, and every stored unit not yet returned is still in the ring.
C1_FifoLaw ==
  /\ Len(getlog) <= Len(rxlog)
  /\ getlog = SubSeq(rxlog, 1, Len(getlog))
  /\ Len(rxlog) - Len(getlog) = RxOccupancy + GetcharPopped
  /\ pc \in {"gc_pub", "gc_rts"} => c = rxlog[Len(getlog) + 1]
  /\ \A i \in 1..RxOccupancy : RxSlot(i) = rxlog[Len(getlog) + GetcharPopped + i]

\* C3: a unit received while the RX ring is full is discarded: head, tail,
\* the occupancy and every buffered slot stay as they were.
C3_OverflowDrop ==
  [][(IsrReceives /\ RxFull) =>
       /\ rx_buffer_head' = rx_buffer_head
       /\ rx_buffer_tail' = rx_buffer_tail
       /\ RxOccupancy' = RxOccupancy
       /\ \A i \in 1..RxOccupancy : RxSlot(i)' = RxSlot(i)
       /\ rxlog' = rxlog]_vars

\* C3 witness: the ring is full and the handler has discarded a unit.
C3_Witness ==
  /\ RxFull
  /\ isr_pc = "idle"
  /\ RxEvents > Len(rxlog)

\* C4: with no serial_getchar since the ring was empty, after k received
\* units the ring holds the first min(k, N-1) of them, oldest first, and the
\* occupancy serial_available reports is min(k, N-1).
NoGetchar == getlog = <<>> /\ pc \notin {"gc_tail", "gc_read", "gc_pub", "gc_rts"}
C4_UsableCapacity ==
  NoGetchar =>
    LET m == Min(RxEvents, rx_buffer_total_size_ - 1) IN
    /\ rxlog = [i \in 1..m |-> i]
    /\ RxOccupancy = m
    /\ \A i \in 1..m : RxSlot(i) = i
    /\ (pc = "av_tail" => Avail(head, rx_buffer_tail, rx_buffer_total_size_) <= m)

\* C8: with an RTS pin, a handler invocation that receives and leaves the
\* occupancy at or above rts_high_watermark_ leaves RTS deasserted.
C8_RtsPause ==
  [][(IsrReceives /\ rts_pin /\ RxOccupancy' >= rts_high_watermark_) =>
       RTS' = "deasserted"]_vars

\* C9: serial_getchar on an empty ring returns -1 and changes neither the
\* tail nor RTS; a successful one asserts RTS exactly if the occupancy after
\* the pop is at or below rts_low_watermark_; none deasserts RTS.
C9_RtsResume ==
  [][/\ (pc = "gc_tail" /\ pc' = "idle") =>
          ret' = -1 /\ rx_buffer_tail' = rx_buffer_tail /\ RTS' = RTS
     /\ (pc = "gc_rts" /\ pc' = "idle" /\ rts_pin) =>
          RTS' = IF RxOccupancy <= rts_low_watermark_ THEN "asserted" ELSE RTS
     /\ (pc \in {"gc_tail", "gc_read", "gc_pub", "gc_rts"} /\ pc' # pc) =>
          (RTS' = "deasserted" => RTS = "deasserted")]_vars

\* C10: RTS goes from asserted to deasserted only with the occupancy at or
\* above rts_high_watermark_, and from deasserted to asserted only with the
\* occupancy at or below rts_low_watermark_.
C10_Hysteresis ==
  [][/\ (RTS = "asserted" /\ RTS' = "deasserted") =>
          RxOccupancy' >= rts_high_watermark_
     /\ (RTS = "deasserted" /\ RTS' = "asserted") =>
          RxOccupancy' <= rts_low_watermark_]_vars

\* ---------------------------------------------------------------------
\* Properties of the transmit side
\* ---------------------------------------------------------------------
TxOccupancy == Avail(tx_buffer_head, tx_buffer_tail, tx_buffer_total_size_)

IsPrefix(s, t) == Len(s) <= Len(t) /\ \A i \in 1..Len(s) : s[i] = t[i]

\* The writer sits in the wait loop with the ring full.
WriterBlocked == pc \in {"pc_wait", "sw_wait"} /\ tx_buffer_tail = head

\* C2: the values written to UART0_D are, in order, a prefix of the units
\* stored by serial_putchar/serial_write: none skipped, none sent twice,
\* none out of order.
C2_TxOrder == IsPrefix(dlog, putlog)

\* C6: when serial_flush returns, the TX ring is empty, every accepted unit
\* has been written to UART0_D and the transmitter has finished.
C6_FlushComplete ==
  [][(pc = "flush" /\ pc' = "idle")
       => (tx_buffer_head = tx_buffer_tail /\ dlog = putlog /\ hwtx = 0)]_vars

\* C7: with no advance of tx_buffer_tail the writer stores
\* tx_buffer_total_size_ - 1 units and then waits; while it waits on the
\* full ring and tx_buffer_tail is unchanged it stays in the wait loop and
\* stores nothing; a unit is stored only into a ring that is not full and
\* takes one free slot, and an advance of tx_buffer_tail by one frees one.
C7_Backpressure ==
  /\ [](/\ TxOccupancy <= tx_buffer_total_size_ - 1
        /\ (WriterBlocked => TxOccupancy = tx_buffer_total_size_ - 1)
        /\ (txPopped = 0 => Len(putlog) = TxOccupancy))
  /\ [][(WriterBlocked /\ tx_buffer_tail' = tx_buffer_tail)
          => (pc' = pc /\ putlog' = putlog /\ tx_buffer_head' = tx_buffer_head)]_vars
  /\ [][(Len(putlog') > Len(putlog))
          => /\ TxOccupancy < tx_buffer_total_size_ - 1
             /\ TxOccupancy' = TxOccupancy + 1
             /\ Len(putlog') = Len(putlog) + 1]_vars
  /\ [][(TxOccupancy > 0
         /\ tx_buffer_tail' = NextIndex(tx_buffer_tail, tx_buffer_total_size_)
         /\ tx_buffer_head' = tx_buffer_head)
          => TxOccupancy' = TxOccupancy - 1]_vars

\* C7 witness: the writer waits again on the full ring after one advance of
\* tx_buffer_tail let it store one more unit than the ring holds.
C7_Witness ==
  /\ WriterBlocked /\ ~txStale /\ txPopped = 1
  /\ Len(putlog) = tx_buffer_total_size_
  /\ tx_buffer_storage_ # "NULL"

\* The transmit pin and the half-duplex direction, where configured, are in
\* the transmit state.
TxAsserted ==
  /\ transmit_pin => TXPIN = 1
  /\ half_duplex_mode => TXDIR = 1

\* C13: with a transmit pin or the half-duplex mode configured, every write
\* of UART0_D (by the handler or by the inline service path) happens with
\* the pin/direction in the transmit state, and the pin/direction goes back
\* to receive only in the handler's transmit-complete branch, with no unit
\* pending in the TX ring and the transmit interrupt not Active.
C13_DriverEnable ==
  [][/\ (Len(dlog') > Len(dlog)) => TxAsserted
     /\ (TXPIN' < TXPIN \/ TXDIR' < TXDIR) =>
          /\ isr_pc = "tc"
          /\ tx_buffer_head = tx_buffer_tail
          /\ "TIE" \notin C2]_vars

\* ---------------------------------------------------------------------
\* Properties of the whole driver
\* ---------------------------------------------------------------------
\* The units stored into a ring and not yet taken out of it.
RxPending == Len(rxlog) - Len(getlog) - (IF pc = "gc_rts" THEN 1 ELSE 0)
TxPending == Len(putlog) - txPopped

\* C5: in every reachable state serial_write_buffer_free() is
\* tx_buffer_total_size_ - 1 minus the units pending in the TX ring,
\* serial_available() is the units pending in the RX ring, and both lie in
\* 0 .. total size - 1.
C5_Counts ==
  LET free == WriteBufferFree(tx_buffer_head, tx_buffer_tail, tx_buffer_total_size_)
      avail == Avail(rx_buffer_head, rx_buffer_tail, rx_buffer_total_size_)
  IN /\ free = tx_buffer_total_size_ - 1 - TxPending
     /\ avail = RxPending
     /\ free \in 0..(tx_buffer_total_size_ - 1)
     /\ avail \in 0..(rx_buffer_total_size_ - 1)

\* The extension installed on the RX ring: the cells of the buffer last
\* passed to serial_add_memory_for_read, none after a null buffer.
RxInstalled == IF rx_buffer_storage_ = "NULL" THEN 0 ELSE Len(rx_ext)

\* C11: with E the length of the installed RX extension (0 when none),
\* rx_buffer_total_size_ is SERIAL1_RX_BUFFER_SIZE + E, the watermarks are
\* RTS_LOW_WATERMARK + E and RTS_HIGH_WATERMARK + E, and the high watermark
\* is at most the usable capacity rx_buffer_total_size_ - 1.
C11_Watermarks ==
  /\ rx_buffer_total_size_ = SERIAL1_RX_BUFFER_SIZE + RxInstalled
  /\ rts_low_watermark_ = RTS_LOW_WATERMARK + RxInstalled
  /\ rts_high_watermark_ = RTS_HIGH_WATERMARK + RxInstalled
  /\ rts_high_watermark_ <= rx_buffer_total_size_ - 1

\* C12: a call of serial_add_memory_for_read or serial_add_memory_for_write
\* with a null buffer or with length 0 leaves the ring's total size at the
\* base size, whatever the other argument and the extension before it.
C12_RemovalRestoresBase ==
  [][\A p \in WholePriorities, b \in Buffers, n \in 0..MaxExt :
       (b = "NULL" \/ n = 0) =>
         /\ serial_add_memory_for_read(p, b, n) =>
              rx_buffer_total_size_' = SERIAL1_RX_BUFFER_SIZE
         /\ serial_add_memory_for_write(p, b, n) =>
              tx_buffer_total_size_' = SERIAL1_TX_BUFFER_SIZE]_vars

\* C12 witness: the TX extension was installed, the head moved into it, and
\* the extension was removed: the total size is the base size again.
C12_Witness ==
  /\ tx_buffer_head >= SERIAL1_TX_BUFFER_SIZE
  /\ tx_buffer_storage_ = "NULL"
  /\ tx_buffer_total_size_ = SERIAL1_TX_BUFFER_SIZE

\* ---------------------------------------------------------------------
\* Properties of the life cycle
\* ---------------------------------------------------------------------
\* A call of serial_putchar / serial_write is in progress.
Writing ==
  pc \in {"pc_entry", "pc_head", "pc_wait", "pc_flag", "pc_pub", "pc_c2",
          "sw_loop", "sw_c2", "sw_wait", "sw_flag", "sw_pub", "sw_end"}

\* C14: with the hardware transmitting, the handler run when its interrupt
\* is requested and calls made from thread mode on a channel that is not
\* shut down: every serial_putchar / serial_write call returns; every unit
\* stored into the TX ring is written to UART0_D; after a write the driver
\* comes to transmitting == 0 with UART0_C2 == C2_TX_INACTIVE; serial_flush
\* and serial_end return.
C14_Liveness ==
  /\ Writing ~> pc = "idle"
  /\ \A k \in 1..MaxTx : (Len(putlog) >= k) ~> (Len(dlog) >= k \/ Ended)
  /\ (Len(putlog) > 0) ~> ((transmitting = 0 /\ C2 = C2_TX_INACTIVE) \/ Ended)
  /\ (pc = "flush") ~> (pc = "idle")
  /\ (pc = "end") ~> (pc = "idle")

\* A call of serial_putchar, serial_write, serial_flush or serial_end is in
\* progress at a statement it cannot pass yet: a wait loop whose condition
\* holds.
Blocked ==
  \/ pc \in {"pc_wait", "sw_wait"} /\ TxFull(tx_buffer_tail, head)
  \/ pc \in {"flush", "end"} /\ transmitting # 0

\* C15: while the clock gate of the UART is closed, serial_putchar,
\* serial_write, serial_flush and serial_end change none of the four ring
\* indices, transmitting, UART0_C2, the transmit pin and direction and the
\* RTS pin, write nothing to UART0_D, store nothing, and never wait.
C15_DisabledNoOp ==
  /\ [](~clock => ~Blocked /\ (Writing => pc = "pc_entry") /\ pc # "end")
  /\ [][(~clock /\ ~clock') =>
          UNCHANGED <<tx_buffer_head, tx_buffer_tail, rx_buffer_head,
                      rx_buffer_tail, transmitting, C2, nvic, TXPIN, TXDIR, RTS,
                      dlog, putlog, hwtx, tx_buffer, txAsked>>]_vars

\* C15 witness: with the clock gate closed and a transmit pin configured,
\* serial_putchar (alone or the last of a serial_write) is at its test of
\* the clock gate.
C15_Witness ==
  /\ ~clock /\ ~fifo /\ transmit_pin
  /\ pc = "pc_entry" /\ count = 1 /\ prio = IRQ_PRIORITY

\* C16: serial_end disables the UART interrupt and clears UART0_C2 only
\* with transmitting == 0; when it returns from an enabled channel the
\* interrupt is disabled, rx_buffer_head == rx_buffer_tail == 0, the TX ring
\* is empty and every unit stored before has been written to UART0_D.
C16_EndOrdering ==
  [][/\ ((nvic /\ ~nvic') \/ (C2 # {} /\ C2' = {})) => transmitting = 0
     /\ (pc = "end" /\ pc' = "idle") =>
          /\ ~nvic'
          /\ rx_buffer_head' = 0 /\ rx_buffer_tail' = 0
          /\ tx_buffer_head' = tx_buffer_tail'
          /\ dlog' = putlog']_vars

\* The TX interrupt mode held in UART0_C2.
TxMode ==
  IF "TIE" \in C2 THEN "Active"
  ELSE IF "TCIE" \in C2 THEN "Completing"
  ELSE "Inactive"

\* C17: the TX interrupt mode is Inactive after serial_begin and changes
\* only from Inactive to Active in a write, from Active to Completing in the
\* handler's transmit-ready branch and from Completing to Inactive in the
\* handler's transmit-complete branch.
C17_ModeMachine ==
  /\ TxMode = "Inactive"
  /\ [][(TxMode' # TxMode) =>
          \/ TxMode = "Inactive" /\ TxMode' = "Active" /\ Writing
          \/ TxMode = "Active" /\ TxMode' = "Completing" /\ isr_pc \in {"idle", "pub"}
          \/ TxMode = "Completing" /\ TxMode' = "Inactive" /\ isr_pc = "tc"]_vars

\* C18: a handler invocation that popped a unit into UART0_D and left the TX
\* ring empty has switched UART0_C2 to C2_TX_COMPLETING by its
\* transmit-complete test; and the handler switches to C2_TX_COMPLETING only
\* with the TX ring empty (tx_buffer_head == tx_buffer_tail at the switch).
C18_CompletingOnDrain ==
  /\ []((isr_pc = "tc" /\ isr_sent > 0 /\ tx_buffer_head = tx_buffer_tail)
          => TxMode = "Completing")
  /\ [][(TxMode # "Completing" /\ TxMode' = "Completing")
          => tx_buffer_head' = tx_buffer_tail']_vars

IsrActs == isr_pc' # isr_pc
ProducerActs == Writing /\ isr_pc' = isr_pc
GetcharActs == pc \in {"gc_tail", "gc_read", "gc_pub", "gc_rts"} /\ isr_pc' = isr_pc

\* C20: on the enabled channel tx_buffer_head is changed only by
\* serial_putchar / serial_write, tx_buffer_tail and rx_buffer_head only by
\* uart0_status_isr, and rx_buffer_tail only by the receive API.
C20_IndexOwnership ==
  [][clock =>
       /\ (tx_buffer_head' # tx_buffer_head) => ProducerActs
       /\ (tx_buffer_tail' # tx_buffer_tail) => IsrActs
       /\ (rx_buffer_head' # rx_buffer_head) => IsrActs
       /\ (rx_buffer_tail' # rx_buffer_tail) => GetcharActs]_vars

\* C25: in every reachable state with no serial_putchar / serial_write call
\* in progress and the TX ring not empty, the TX interrupt mode is Active
\* (the transmit-ready interrupt is enabled).
C25_NoStrandedUnits ==
  (~Writing /\ tx_buffer_head # tx_buffer_tail) => TxMode = "Active"

\* The call in progress is in the wait loop of serial_putchar / serial_write
\* with the ring full.
InWaitLoop == pc \in {"pc_wait", "sw_wait"} /\ TxFull(tx_buffer_tail, head)

C23_ClearInterleaved ==
  [][/\ (pc = "cl_rts" /\ pc' = "idle") =>
          /\ rx_buffer_head' = rx_buffer_tail' \/ Len(rxlog') > count
          /\ rts_pin => RTS' = "asserted"
     /\ (pc = "gc_rts" /\ pc' = "idle") => ret' > rxMark
     /\ (pc = "pk_tail" /\ pc' = "idle" /\ ret' # -1) => ret' > rxMark]_vars

\* ---------------------------------------------------------------------
\* Properties of the extension storage
\* ---------------------------------------------------------------------
\* C21: in every reachable state, with extensions installed and removed only
\* on an empty ring, tx_buffer_head and tx_buffer_tail are below
\* tx_buffer_total_size_ and rx_buffer_head and rx_buffer_tail are below
\* rx_buffer_total_size_.
C21_IndexBounds ==
  /\ tx_buffer_head < tx_buffer_total_size_
  /\ tx_buffer_tail < tx_buffer_total_size_
  /\ rx_buffer_head < rx_buffer_total_size_
  /\ rx_buffer_tail < rx_buffer_total_size_

\* C22: no slot access of serial_putchar, serial_getchar, serial_peek and
\* uart0_status_isr goes outside the storage: an index below the base size
\* addresses the base array, any other index the cell index - base size of
\* the extension, which is installed and has that many cells.
C22_SplitAddressing == ~fault
====
